---- MODULE Spec2Model ----
(***************************************************************************)
(* Model of discogs-notion-sync: the retry helpers of sync.py              *)
(* (notion_request, discogs_request) and the reconciliation loop of        *)
(* sync.py main() against a Discogs collection (source) and a Notion       *)
(* database (target).                                                      *)
(* Further: parse_formats of sync.py, and the request helpers and main()   *)
(* of discogs_notion_value_sync.py.                                        *)
(***************************************************************************)
EXTENDS Integers, Sequences, FiniteSets, TLC

VARIABLES
    \* ---- one call of notion_request / discogs_request (sync.py) ----
    rq_pc,          \* "idle" | "loop" | "except" | "done"
    rq_helper,      \* "notion" | "discogs"
    rq_method,      \* "GET" | "POST" | "PATCH"
    max_retries,    \* the max_retries parameter
    attempt,        \* the loop variable of `for attempt in range(max_retries)`
    rq_resps,       \* what the server answered to each request issued, in order
    rq_sleeps,      \* the argument of each time.sleep, in order
    rq_result,      \* "pending" | "response" | "None"
    \* ---- the source (Discogs) and the target (Notion database) ----
    srcCollection,  \* the user's collection, in provider order
    dbPages,        \* the pages of the database, in query order
    dbOptions,      \* select field -> option names the database accepts
    \* ---- sync.py main() ----
    pc,             \* position in main()
    run,            \* number of the current run of main()
    page,           \* get_full_collection: page
    collection,     \* main: collection (get_full_collection: releases)
    folder_map,     \* main: folder_map
    field_map,      \* main: field_map
    start_cursor,   \* fetch_all_notion_pages: start_cursor (0 stands for None)
    notion_pages,   \* main: notion_pages, Discogs ID -> page id
    options,        \* main: folder_options .. style_options, by field
    optK,           \* which of the five fetch_select_options calls is next
    idx,            \* position of `item` in collection
    release_id,     \* main: release_id (Unbound before its first assignment)
    folder_name,    \* main: folder_name
    media_condition,
    sleeve_condition,
    full_release,   \* main: full_release
    market,         \* main: <<lowest, median, highest>>
    created,        \* main: created
    updated,        \* main: updated
    \* ---- observation ----
    log,            \* the requests this run of main() has issued, in order
    knownAt,        \* per item begun: `options` as it was when the item began
    dbOptionsAtStart, \* dbOptions when the current run began
    enumFailed,     \* a page request of get_full_collection returned None
    detailFailed,   \* items whose get_release_details request returned None
    excepted,       \* items whose processing raised an exception
    writesOk,       \* positions in log of the create/update requests that succeeded
    failures,       \* requests that returned None so far
    \* ---- one call of parse_formats (sync.py) ----
    pf_pc,          \* "idle" | "loop" | "done"
    formats,        \* the argument: [present, list]; list is a sequence of
                    \* formats, each the sequence of its descriptions
    pf_todo,        \* the descriptions the two loops have yet to visit
    size,           \* parse_formats: size
    speed,          \* parse_formats: speed
    details,        \* parse_formats: details
    details_text,   \* parse_formats: details_text ("unset" before it is assigned)
    \* ---- one call of discogs_request / notion_request (value sync) ----
    vq_pc,          \* "idle" | "loop" | "done"
    vq_helper,      \* "notion" | "discogs"
    vq_resps,       \* what the server answered to each request issued, in order
    vq_sleeps,      \* the argument of each time.sleep, in order
    vq_result,      \* "pending" | "response" | "None" | "raised"
    \* ---- discogs_notion_value_sync.py main() and its target ----
    vs_store,       \* the pages of the database, in query order
    vs_pc,          \* position in main()
    vs_second,      \* this is the second run of main() in succession
    vs_cursor,      \* fetch_all_pages: start_cursor (0 stands for None)
    vs_pages,       \* main: pages
    vs_i,           \* position of `page` in pages
    vs_values,      \* main: <<lowest, median, highest>>
    vs_updated,     \* main: updated
    vs_skipped,     \* main: skipped
    vs_log,         \* the requests this run has issued, with their outcomes
    vs_failures     \* requests that returned None so far

rqVars == <<rq_pc, rq_helper, rq_method, max_retries, attempt, rq_resps,
            rq_sleeps, rq_result>>
storeVars == <<srcCollection, dbPages, dbOptions>>
mainVars == <<pc, run, page, collection, folder_map, field_map, start_cursor,
              notion_pages, options, optK, idx, release_id, folder_name,
              media_condition, sleeve_condition, full_release, market,
              created, updated>>
obsVars == <<log, knownAt, dbOptionsAtStart, enumFailed, detailFailed,
             excepted, writesOk, failures>>
pfVars == <<pf_pc, formats, pf_todo, size, speed, details, details_text>>
vqVars == <<vq_pc, vq_helper, vq_resps, vq_sleeps, vq_result>>
vsVars == <<vs_store, vs_pc, vs_second, vs_cursor, vs_pages, vs_i, vs_values,
            vs_updated, vs_skipped, vs_log, vs_failures>>
vars == <<rqVars, storeVars, mainVars, obsVars, pfVars, vqVars, vsVars>>

None == "None"

\* a local name of main() that no statement has assigned yet
Unbound == -1

(***************************************************************************)
(* Bounds of the model.                                                    *)
(***************************************************************************)
MaxItems == 2        \* longest source collection
MaxFailures == 2     \* requests that may fail (return None) in one behaviour
SrcPageCap == 1      \* items the provider puts on one collection page
QueryPageCap == 1    \* results the target puts on one query page
MaxRuns == 2         \* runs of main() in succession
MaxDescs == 3        \* descriptions in the formats given to parse_formats
MaxThrottles == 2    \* 429 answers to one call of the value sync's discogs_request
MaxPages == 2        \* pages of the database the value sync runs against

(***************************************************************************)
(* Program constants.                                                      *)
(***************************************************************************)
DefaultMaxRetries == 5
PerPage == 100
RetryAfterDefault == 5
ServerErrorWait == 2

(***************************************************************************)
(* RETRY HELPERS: notion_request and discogs_request of sync.py.           *)
(***************************************************************************)
ConnError == 0
ServerAnswers == {200, 404, 429, 500, ConnError}

\* requests raised an exception (no answer), `status >= 500 or == 429`
\* raises HTTPError, and raise_for_status() raises it for any other 4xx
RaisesRequestException(status) ==
    \/ status = ConnError
    \/ status >= 500 \/ status = 429
    \/ status >= 400

BackoffWaitDoubled(a) == 2 ^ (a + 1)

\* wait = 2 ** attempt
BackoffWait(a) == 2 ^ a

InitRq ==
    /\ rq_pc = "idle"
    /\ rq_helper = "notion"
    /\ rq_method = "GET"
    /\ max_retries = DefaultMaxRetries
    /\ attempt = 0
    /\ rq_resps = <<>>
    /\ rq_sleeps = <<>>
    /\ rq_result = "pending"

\* a caller enters the helper; max_retries is the parameter (default 5)
RqCall ==
    /\ rq_pc = "idle"
    /\ \E h \in {"notion", "discogs"} :
         /\ rq_helper' = h
         /\ rq_method' \in (IF h = "discogs" THEN {"GET"} ELSE {"GET", "POST", "PATCH"})
    /\ max_retries' \in 1..DefaultMaxRetries
    /\ attempt' = 0
    /\ rq_pc' = "loop"
    /\ UNCHANGED <<rq_resps, rq_sleeps, rq_result>>
    /\ UNCHANGED <<storeVars, mainVars, obsVars, pfVars, vqVars, vsVars>>

\* one pass of the try block: issue the request, return r or raise
RqSend ==
    /\ rq_pc = "loop"
    /\ attempt < max_retries
    /\ \E status \in ServerAnswers :
         /\ rq_resps' = Append(rq_resps, status)
         /\ IF RaisesRequestException(status)
            THEN /\ rq_pc' = "except"
                 /\ UNCHANGED rq_result
            ELSE /\ rq_pc' = "done"
                 /\ rq_result' = "response"
    /\ UNCHANGED <<rq_helper, rq_method, max_retries, attempt, rq_sleeps>>
    /\ UNCHANGED <<storeVars, mainVars, obsVars, pfVars, vqVars, vsVars>>

\* the except block: sleep 2 ** attempt, then the next iteration
RqBackoff ==
    /\ rq_pc = "except"
    /\ rq_sleeps' = Append(rq_sleeps, BackoffWait(attempt))
    /\ attempt' = attempt + 1
    /\ rq_pc' = "loop"
    /\ UNCHANGED <<rq_helper, rq_method, max_retries, rq_resps, rq_result>>
    /\ UNCHANGED <<storeVars, mainVars, obsVars, pfVars, vqVars, vsVars>>

\* the loop is exhausted: print the error and return None
RqGiveUp ==
    /\ rq_pc = "loop"
    /\ attempt >= max_retries
    /\ rq_result' = "None"
    /\ rq_pc' = "done"
    /\ UNCHANGED <<rq_helper, rq_method, max_retries, attempt, rq_resps, rq_sleeps>>
    /\ UNCHANGED <<storeVars, mainVars, obsVars, pfVars, vqVars, vsVars>>

NextRq == RqCall \/ RqSend \/ RqBackoff \/ RqGiveUp

(***************************************************************************)
(* The source: a Discogs user's folders, custom fields, collection and     *)
(* releases.                                                               *)
(***************************************************************************)
SelectFields == <<"Folder", "Media Condition", "Sleeve Condition", "Genre", "Style">>
FieldNames == {SelectFields[k] : k \in 1..Len(SelectFields)}

EmptyMap == [x \in {} |-> None]

\* GET /users/<name>/collection/folders, as {id: name}
SrcFolders == (1 :> "Vinyl") @@ (2 :> "Singles")

\* GET /users/<name>/collection/fields, as {id: name}
SrcFields == (1 :> "Media Condition") @@ (2 :> "Sleeve Condition") @@ (3 :> "Notes")

\* GET /releases/<id>: the keys main() reads, with an absent key already
\* replaced by the default main() gives to .get(), [None]
SrcReleases ==
    (1 :> [genres |-> <<"Rock", "Pop">>, styles |-> <<"Punk">>]) @@
    (2 :> [genres |-> <<"Jazz">>, styles |-> <<None>>]) @@
    (3 :> [genres |-> <<"Rock">>, styles |-> <<>>])

\* what r.json() is when discogs_request returned None: {}
EmptyRelease == [genres |-> <<None>>, styles |-> <<None>>]

\* entries of the collection: has_basic is whether the entry carries
\* "basic_information"; rid is basic_information.id
ItemPool == {
    [has_basic |-> TRUE, rid |-> 1, folder_id |-> 1,
     notes |-> <<[field_id |-> 1, value |-> "VG"]>>],
    [has_basic |-> TRUE, rid |-> 2, folder_id |-> 2,
     notes |-> <<[field_id |-> 3, value |-> "signed"],
                 [field_id |-> 1, value |-> "NM"],
                 [field_id |-> 2, value |-> "VG"]>>],
    [has_basic |-> TRUE, rid |-> 3, folder_id |-> 1, notes |-> <<>>],
    [has_basic |-> FALSE, rid |-> 0, folder_id |-> 1, notes |-> <<>>] }

Collections == UNION {[1..n -> ItemPool] : n \in 0..MaxItems}

Min(a, b) == IF a < b THEN a ELSE b

\* pagination.pages of the provider's answer
PageCount(coll) ==
    IF Len(coll) = 0 THEN 1 ELSE (Len(coll) + SrcPageCap - 1) \div SrcPageCap

\* data["releases"] of page p
PageItems(coll, p) ==
    SubSeq(coll, (p - 1) * SrcPageCap + 1, Min(p * SrcPageCap, Len(coll)))

(***************************************************************************)
(* Requests, as the log records them.                                      *)
(***************************************************************************)
NoProps == [f \in FieldNames |-> None]

Req(op, item, field, key, target, opts, props) ==
    [op |-> op, item |-> item, field |-> field, key |-> key,
     target |-> target, options |-> opts, props |-> props]

ReadReq(op, item, key) == Req(op, item, None, key, 0, {}, NoProps)

IsWrite(e) == e.op \in {"create", "update"}

(***************************************************************************)
(* Pure parts of sync.py main().                                           *)
(***************************************************************************)
\* Python truthiness of a str-or-None value
Truthy(v) == v # None /\ v # ""

\* dict.get(key) with default None
Get(map, key) == IF key \in DOMAIN map THEN map[key] ELSE None

\* the CONDITION SPLIT loop: the last note of each kind wins
RECURSIVE ConditionOf(_, _, _)
ConditionOf(notes, fmap, name) ==
    IF notes = <<>> THEN None
    ELSE LET n == notes[Len(notes)]
         IN IF Get(fmap, n.field_id) = name
            THEN n.value
            ELSE ConditionOf(SubSeq(notes, 1, Len(notes) - 1), fmap, name)

\* full_release.get(key, [None])[0]
FirstOf(list) == list[1]

NeedsOptionInverted(value, opts) == Truthy(value) /\ value \in opts

\* `if value and value not in value_options`
NeedsOption(value, opts) == Truthy(value) /\ value \notin opts

\* GET /marketplace/stats and /marketplace/price_suggestions, per release:
\* <<lowest, median, highest>>
SrcMarket == (1 :> <<5, 10, 20>>) @@ (2 :> <<3, 10, 15>>) @@ (3 :> <<5, 10, 20>>)

(***************************************************************************)
(* The target: pages of the database and its select options.               *)
(***************************************************************************)
DbPage(id, rid, props, values) ==
    [id |-> id, discogs_id |-> rid, props |-> props, values |-> values]

InitialDbOptions ==
    [f \in FieldNames |->
        CASE f = "Folder" -> {"Vinyl"}
          [] f = "Media Condition" -> {"VG"}
          [] OTHER -> {}]

InitialDbPages == {
    <<>>,
    <<DbPage(1, 1, NoProps, <<None, None, None>>),
      DbPage(2, 2, NoProps, <<None, None, None>>)>> }

\* the `for result in data["results"]` loop of fetch_all_notion_pages
RECURSIVE IndexResults(_, _)
IndexResults(pages, results) ==
    IF results = <<>> THEN pages
    ELSE LET result == Head(results)
         IN IndexResults(
              IF result.discogs_id # 0
              THEN (result.discogs_id :> result.id) @@ pages
              ELSE pages,
              Tail(results))

(***************************************************************************)
(* sync.py main().                                                         *)
(***************************************************************************)
\* the outcomes a request helper can return with: a response (TRUE) or None
Outcomes == {TRUE} \cup (IF failures < MaxFailures THEN {FALSE} ELSE {})

Failed(ok) == IF ok THEN 0 ELSE 1

InitMain ==
    /\ srcCollection \in Collections
    /\ dbPages \in InitialDbPages
    /\ dbOptions = InitialDbOptions
    /\ pc = "collection"
    /\ run = 1
    /\ page = 1
    /\ collection = <<>>
    /\ folder_map = EmptyMap
    /\ field_map = EmptyMap
    /\ start_cursor = 0
    /\ notion_pages = EmptyMap
    /\ options = [f \in FieldNames |-> {}]
    /\ optK = 1
    /\ idx = 1
    /\ release_id = Unbound
    /\ folder_name = None
    /\ media_condition = None
    /\ sleeve_condition = None
    /\ full_release = EmptyRelease
    /\ market = <<None, None, None>>
    /\ created = 0
    /\ updated = 0
    /\ log = <<>>
    /\ knownAt = <<>>
    /\ dbOptionsAtStart = dbOptions
    /\ enumFailed = FALSE
    /\ detailFailed = {}
    /\ excepted = {}
    /\ writesOk = {}
    /\ failures = 0

IsLastPageOffByOne(p, pages) == p > pages

\* `if page >= data["pagination"]["pages"]`
IsLastPage(p, pages) == p >= pages

\* one iteration of the `while True` of get_full_collection; the log entry
\* carries the page number as key and per_page as target
GetCollectionPage ==
    /\ pc = "collection"
    /\ log' = Append(log, Req("collection_page", 0, None, page, PerPage, {}, NoProps))
    /\ \E ok \in Outcomes :
         /\ failures' = failures + Failed(ok)
         /\ IF ~ok
            THEN /\ pc' = "folders"
                 /\ enumFailed' = TRUE
                 /\ UNCHANGED <<collection, page>>
            ELSE /\ collection' = collection \o PageItems(srcCollection, page)
                 /\ UNCHANGED enumFailed
                 /\ IF IsLastPage(page, PageCount(srcCollection))
                    THEN pc' = "folders" /\ UNCHANGED page
                    ELSE pc' = "collection" /\ page' = page + 1
    /\ UNCHANGED <<pfVars, vqVars, vsVars, rqVars, storeVars, run, folder_map, field_map, start_cursor,
                   notion_pages, options, optK, idx, release_id, folder_name,
                   media_condition, sleeve_condition, full_release, market,
                   created, updated, knownAt, dbOptionsAtStart,
                   detailFailed, excepted, writesOk>>

GetFolderMap ==
    /\ pc = "folders"
    /\ log' = Append(log, ReadReq("folders", 0, 0))
    /\ \E ok \in Outcomes :
         /\ failures' = failures + Failed(ok)
         /\ folder_map' = IF ok THEN SrcFolders ELSE EmptyMap
    /\ pc' = "fields"
    /\ UNCHANGED <<pfVars, vqVars, vsVars, rqVars, storeVars, run, page, collection, field_map, start_cursor,
                   notion_pages, options, optK, idx, release_id, folder_name,
                   media_condition, sleeve_condition, full_release, market,
                   created, updated, knownAt, dbOptionsAtStart, enumFailed,
                   detailFailed, excepted, writesOk>>

GetCollectionFields ==
    /\ pc = "fields"
    /\ log' = Append(log, ReadReq("fields", 0, 0))
    /\ \E ok \in Outcomes :
         /\ failures' = failures + Failed(ok)
         /\ field_map' = IF ok THEN SrcFields ELSE EmptyMap
    /\ pc' = "index"
    /\ UNCHANGED <<pfVars, vqVars, vsVars, rqVars, storeVars, run, page, collection, folder_map, start_cursor,
                   notion_pages, options, optK, idx, release_id, folder_name,
                   media_condition, sleeve_condition, full_release, market,
                   created, updated, knownAt, dbOptionsAtStart, enumFailed,
                   detailFailed, excepted, writesOk>>

\* one iteration of the `while has_more` of fetch_all_notion_pages; the log
\* entry carries start_cursor as key
FetchNotionPages ==
    /\ pc = "index"
    /\ log' = Append(log, ReadReq("query", 0, start_cursor))
    /\ \E ok \in Outcomes :
         /\ failures' = failures + Failed(ok)
         /\ IF ~ok
            THEN /\ pc' = "options"
                 /\ UNCHANGED <<notion_pages, start_cursor>>
            ELSE LET last == Min(start_cursor + QueryPageCap, Len(dbPages))
                     has_more == last < Len(dbPages)
                 IN /\ notion_pages' =
                          IndexResults(notion_pages, SubSeq(dbPages, start_cursor + 1, last))
                    /\ start_cursor' = IF has_more THEN last ELSE 0
                    /\ pc' = IF has_more THEN "index" ELSE "options"
    /\ UNCHANGED <<pfVars, vqVars, vsVars, rqVars, storeVars, run, page, collection, folder_map, field_map,
                   options, optK, idx, release_id, folder_name,
                   media_condition, sleeve_condition, full_release, market,
                   created, updated, knownAt, dbOptionsAtStart, enumFailed,
                   detailFailed, excepted, writesOk>>

\* the five calls of fetch_select_options, in the order of lines 227-231;
\* the last is followed by created = 0, updated = 0
FetchSelectOptions ==
    /\ pc = "options"
    /\ LET f == SelectFields[optK]
       IN /\ log' = Append(log, Req("database", 0, f, 0, 0, {}, NoProps))
          /\ \E ok \in Outcomes :
               /\ failures' = failures + Failed(ok)
               /\ options' = [options EXCEPT ![f] = IF ok THEN dbOptions[f] ELSE {}]
    /\ IF optK < Len(SelectFields)
       THEN optK' = optK + 1 /\ UNCHANGED pc
       ELSE pc' = "loop" /\ UNCHANGED optK
    /\ UNCHANGED <<pfVars, vqVars, vsVars, rqVars, storeVars, run, page, collection, folder_map, field_map,
                   start_cursor, notion_pages, idx, release_id, folder_name,
                   media_condition, sleeve_condition, full_release, market,
                   created, updated, knownAt, dbOptionsAtStart, enumFailed,
                   detailFailed, excepted, writesOk>>

\* `for item in collection`: lines 238-255, up to the first request of the
\* item; item["basic_information"] raises KeyError when the key is absent
ItemBegin ==
    /\ pc = "loop"
    /\ idx <= Len(collection)
    /\ LET item == collection[idx]
       IN IF ~item.has_basic
          THEN /\ pc' = "except"
               /\ excepted' = excepted \cup {idx}
               /\ UNCHANGED <<release_id, folder_name, media_condition, sleeve_condition>>
          ELSE /\ release_id' = item.rid
               /\ UNCHANGED excepted
               /\ folder_name' = Get(folder_map, item.folder_id)
               /\ media_condition' = ConditionOf(item.notes, field_map, "Media Condition")
               /\ sleeve_condition' = ConditionOf(item.notes, field_map, "Sleeve Condition")
               /\ pc' = "ensure"
    /\ knownAt' = Append(knownAt, options)
    /\ UNCHANGED <<pfVars, vqVars, vsVars, rqVars, storeVars, run, page, collection, folder_map, field_map,
                   start_cursor, notion_pages, options, optK, idx, full_release,
                   market, created, updated, log, dbOptionsAtStart, enumFailed,
                   detailFailed, writesOk, failures>>

\* the value main() holds for a select field of the current item
ItemValue(f) ==
    CASE f = "Folder" -> folder_name
      [] f = "Media Condition" -> media_condition
      [] f = "Sleeve Condition" -> sleeve_condition
      [] f = "Genre" -> FirstOf(full_release.genres)
      [] f = "Style" -> FirstOf(full_release.styles)

\* the `if value and value not in options` tests of a group of fields that
\* are still true, by position in SelectFields
Pending(group) ==
    {k \in group : NeedsOption(ItemValue(SelectFields[k]), options[SelectFields[k]])}

BeforeDetails == {1, 2, 3}
AfterDetailsGenreOnly == {4}

AfterDetails == {4, 5}

Least(S) == CHOOSE k \in S : \A j \in S : k <= j

\* update_select_schema(property_name, new_value, existing_options): add the
\* value to the caller's set and PATCH the database with the whole set; a
\* PATCH that succeeds replaces the field's options in the database
UpdateSelectSchema(property_name, new_value) ==
    LET existing_options == options[property_name] \cup {new_value}
    IN /\ options' = [options EXCEPT ![property_name] = existing_options]
       /\ log' = Append(log, Req("schema", idx, property_name, 0, 0,
                                 existing_options, NoProps))
       /\ \E ok \in Outcomes :
            /\ failures' = failures + Failed(ok)
            /\ dbOptions' = IF ok
                            THEN [dbOptions EXCEPT ![property_name] = existing_options]
                            ELSE dbOptions

\* lines 258-265 and 276-280: the next select field whose value is unknown
EnsureSelectOption ==
    /\ pc \in {"ensure", "ensure2"}
    /\ LET group == IF pc = "ensure" THEN BeforeDetails ELSE AfterDetails
       IN /\ Pending(group) # {}
          /\ LET f == SelectFields[Least(Pending(group))]
             IN UpdateSelectSchema(f, ItemValue(f))
    /\ UNCHANGED <<pfVars, vqVars, vsVars, rqVars, srcCollection, dbPages, pc, run, page, collection, folder_map,
                   field_map, start_cursor, notion_pages, optK, idx, release_id,
                   folder_name, media_condition, sleeve_condition, full_release,
                   market, created, updated, knownAt, dbOptionsAtStart,
                   enumFailed,
                   detailFailed, excepted, writesOk>>

\* full_release = get_release_details(release_id)
GetReleaseDetails ==
    /\ pc = "ensure"
    /\ Pending(BeforeDetails) = {}
    /\ log' = Append(log, ReadReq("release", idx, release_id))
    /\ \E ok \in Outcomes :
         /\ failures' = failures + Failed(ok)
         /\ full_release' = IF ok THEN SrcReleases[release_id] ELSE EmptyRelease
         /\ detailFailed' = IF ok THEN detailFailed ELSE detailFailed \cup {idx}
    /\ pc' = "stats"
    /\ UNCHANGED <<pfVars, vqVars, vsVars, rqVars, storeVars, run, page, collection, folder_map, field_map,
                   start_cursor, notion_pages, options, optK, idx, release_id,
                   folder_name, media_condition, sleeve_condition, market,
                   created, updated, knownAt, dbOptionsAtStart, enumFailed,
                   excepted, writesOk>>

\* full_release.get(key, [None])[0] of lines 273-274 raises IndexError on an
\* empty list
RaisesIndexError(release) == release.genres = <<>> \/ release.styles = <<>>

\* lowest, median, highest = get_market_stats(release_id): two requests; then
\* genre and style are read (lines 273-274)
GetMarketStats ==
    /\ pc = "stats"
    /\ log' = log \o <<ReadReq("stats", idx, release_id),
                       ReadReq("price_suggestions", idx, release_id)>>
    /\ \E okStats \in Outcomes, okPrice \in BOOLEAN :
         /\ failures + Failed(okStats) + Failed(okPrice) <= MaxFailures
         /\ failures' = failures + Failed(okStats) + Failed(okPrice)
         /\ market' = << IF okStats THEN SrcMarket[release_id][1] ELSE None,
                         IF okPrice THEN SrcMarket[release_id][2] ELSE None,
                         IF okPrice THEN SrcMarket[release_id][3] ELSE None >>
    /\ IF RaisesIndexError(full_release)
       THEN pc' = "except" /\ excepted' = excepted \cup {idx}
       ELSE pc' = "ensure2" /\ UNCHANGED excepted
    /\ UNCHANGED <<pfVars, vqVars, vsVars, rqVars, storeVars, run, page, collection, folder_map, field_map,
                   start_cursor, notion_pages, options, optK, idx, release_id,
                   folder_name, media_condition, sleeve_condition, full_release,
                   created, updated, knownAt, dbOptionsAtStart, enumFailed,
                   detailFailed, writesOk>>

\* the select properties of the payload: a None value is filtered out (309)
Properties == [f \in FieldNames |-> IF Truthy(ItemValue(f)) THEN ItemValue(f) ELSE None]

NextPageId == Len(dbPages) + 1

\* the position in dbPages of the page with this id
PageAt(id) == CHOOSE i \in 1..Len(dbPages) : dbPages[i].id = id

InIndexNever(rid, pages) == FALSE

\* `if release_id in notion_pages`
InIndex(rid, pages) == rid \in DOMAIN pages

\* lines 311-324: PATCH the indexed page or POST a new one, count it, and go
\* to the next item; a request that succeeds changes the database
WritePage ==
    /\ pc = "ensure2"
    /\ Pending(AfterDetails) = {}
    /\ IF InIndex(release_id, notion_pages)
       THEN LET page_id == notion_pages[release_id]
            IN /\ log' = Append(log, Req("update", idx, None, release_id, page_id,
                                         {}, Properties))
               /\ \E ok \in Outcomes :
                    /\ failures' = failures + Failed(ok)
                    /\ writesOk' = IF ok THEN writesOk \cup {Len(log')} ELSE writesOk
                    /\ dbPages' = IF ok
                                  THEN [dbPages EXCEPT ![PageAt(page_id)] =
                                          DbPage(page_id, release_id, Properties, market)]
                                  ELSE dbPages
               /\ updated' = updated + 1
               /\ UNCHANGED created
       ELSE /\ log' = Append(log, Req("create", idx, None, release_id, 0,
                                      {}, Properties))
            /\ \E ok \in Outcomes :
                 /\ failures' = failures + Failed(ok)
                 /\ writesOk' = IF ok THEN writesOk \cup {Len(log')} ELSE writesOk
                 /\ dbPages' = IF ok
                               THEN Append(dbPages, DbPage(NextPageId, release_id,
                                                           Properties, market))
                               ELSE dbPages
            /\ created' = created + 1
            /\ UNCHANGED updated
    /\ idx' = idx + 1
    /\ pc' = "loop"
    /\ UNCHANGED <<pfVars, vqVars, vsVars, rqVars, srcCollection, dbOptions, run, page, collection, folder_map,
                   field_map, start_cursor, notion_pages, options, optK,
                   release_id, folder_name, media_condition, sleeve_condition,
                   full_release, market, knownAt, dbOptionsAtStart, enumFailed,
                   detailFailed, excepted>>

\* `except Exception as e`: the print reads release_id; while release_id has
\* never been assigned that raises NameError, which leaves main()
HandleException ==
    /\ pc = "except"
    /\ IF release_id = Unbound
       THEN pc' = "crashed" /\ UNCHANGED idx
       ELSE pc' = "loop" /\ idx' = idx + 1
    /\ UNCHANGED <<pfVars, vqVars, vsVars, rqVars, storeVars, run, page, collection, folder_map, field_map,
                   start_cursor, notion_pages, options, optK, release_id,
                   folder_name, media_condition, sleeve_condition, full_release,
                   market, created, updated, obsVars>>

\* the loop is over: print the counters
Finish ==
    /\ pc = "loop"
    /\ idx > Len(collection)
    /\ pc' = "done"
    /\ UNCHANGED <<pfVars, vqVars, vsVars, rqVars, storeVars, run, page, collection, folder_map, field_map,
                   start_cursor, notion_pages, options, optK, idx, release_id,
                   folder_name, media_condition, sleeve_condition, full_release,
                   market, created, updated, obsVars>>

\* main() is run again, as a new process, against the same source and target
StartRun ==
    /\ pc \in {"done", "crashed"}
    /\ run < MaxRuns
    /\ run' = run + 1
    /\ pc' = "collection"
    /\ page' = 1
    /\ collection' = <<>>
    /\ folder_map' = EmptyMap
    /\ field_map' = EmptyMap
    /\ start_cursor' = 0
    /\ notion_pages' = EmptyMap
    /\ options' = [f \in FieldNames |-> {}]
    /\ optK' = 1
    /\ idx' = 1
    /\ release_id' = Unbound
    /\ folder_name' = None
    /\ media_condition' = None
    /\ sleeve_condition' = None
    /\ full_release' = EmptyRelease
    /\ market' = <<None, None, None>>
    /\ created' = 0
    /\ updated' = 0
    /\ log' = <<>>
    /\ knownAt' = <<>>
    /\ dbOptionsAtStart' = dbOptions
    /\ enumFailed' = FALSE
    /\ detailFailed' = {}
    /\ excepted' = {}
    /\ writesOk' = {}
    /\ UNCHANGED <<pfVars, vqVars, vsVars, rqVars, storeVars, failures>>

InitPf ==
    /\ pf_pc = "idle"
    /\ formats = [present |-> FALSE, list |-> <<>>]
    /\ pf_todo = <<>>
    /\ size = <<None>>
    /\ speed = <<None>>
    /\ details = <<>>
    /\ details_text = <<"unset">>

InitVq ==
    /\ vq_pc = "idle"
    /\ vq_helper = "discogs"
    /\ vq_resps = <<>>
    /\ vq_sleeps = <<>>
    /\ vq_result = "pending"

\* the locals of main() and fetch_all_pages as a run starts
InitVsLocals ==
    /\ vs_cursor = 0
    /\ vs_pages = <<>>
    /\ vs_i = 1
    /\ vs_values = <<None, None, None>>
    /\ vs_updated = 0
    /\ vs_skipped = 0

InitVs ==
    /\ vs_store = <<>>
    /\ InitVsLocals
    /\ vs_pc = "idle"
    /\ vs_second = FALSE
    /\ vs_log = <<>>
    /\ vs_failures = 0

\* one run of main()
Next ==
    \/ GetCollectionPage \/ GetFolderMap \/ GetCollectionFields
    \/ FetchNotionPages \/ FetchSelectOptions
    \/ ItemBegin \/ EnsureSelectOption \/ GetReleaseDetails \/ GetMarketStats
    \/ WritePage \/ HandleException \/ Finish

\* nothing but main() of sync.py runs
Init == InitRq /\ InitMain /\ InitPf /\ InitVq /\ InitVs

Spec == Init /\ [][Next]_vars

\* runs of main() in succession
NextRuns == Next \/ StartRun

SpecRuns == Init /\ [][NextRuns]_vars

\* one call of a request helper, main() not running
InitIdle ==
    /\ InitRq
    /\ InitMain
    /\ srcCollection = <<>>
    /\ dbPages = <<>>
    /\ InitPf
    /\ InitVq
    /\ InitVs

SpecRq == InitIdle /\ [][NextRq]_vars

FairSpecRq == SpecRq /\ WF_vars(NextRq)

(***************************************************************************)
(* FORMAT PARSER: parse_formats of sync.py.                                *)
(*                                                                         *)
(* A text is the sequence of its characters, so that the two patterns and  *)
(* str.replace are computed character by character.  The empty text is     *)
(* <<>>; None, where a text may stand, is <<None>>.                        *)
(***************************************************************************)
\* the character U+2153, VULGAR FRACTION ONE THIRD
OneThird == "{1/3}"

\* \w, over the characters the descriptions below are made of
\* (str.isalnum() is true of U+2153)
IsWord(c) == c \notin {" ", "\"", "/", ","}

\* \b at the position before text[i] (i = Len(text) + 1: at the end)
WordBoundary(text, i) ==
    LET before == i > 1 /\ IsWord(text[i - 1])
        after == i <= Len(text) /\ IsWord(text[i])
    IN before # after

\* re.IGNORECASE, over the letters of the pattern
Fold(c) == CASE c = "r" -> "R" [] c = "p" -> "P" [] c = "m" -> "M" [] OTHER -> c

\* text[i..] starts with the literal
LiteralAt(text, i, literal) ==
    /\ i + Len(literal) - 1 <= Len(text)
    /\ \A k \in 1..Len(literal) : Fold(text[i + k - 1]) = literal[k]

\* (33\s?U+2153|33\s?1/3|45|78), the space being the only whitespace here
RpmNumbers ==
    {<<"3", "3", OneThird>>, <<"3", "3", " ", OneThird>>,
     <<"3", "3", "1", "/", "3">>, <<"3", "3", " ", "1", "/", "3">>,
     <<"4", "5">>, <<"7", "8">>}

\* every text the group, \s? and RPM spell out
RpmLiterals == {n \o gap \o <<"R", "P", "M">> : n \in RpmNumbers, gap \in {<<>>, <<" ">>}}

\* RPM_PATTERN.search(text)
RPM_PATTERN(text) ==
    \E i \in 1..Len(text), literal \in RpmLiterals :
        /\ WordBoundary(text, i)
        /\ LiteralAt(text, i, literal)
        /\ WordBoundary(text, i + Len(literal))

SizeLiterals == {<<"7", "\"">>, <<"1", "0", "\"">>, <<"1", "2", "\"">>}

\* SIZE_PATTERN.search(text)
SIZE_PATTERN(text) ==
    \E i \in 1..Len(text), literal \in SizeLiterals :
        /\ WordBoundary(text, i)
        /\ i + Len(literal) - 1 <= Len(text)
        /\ \A k \in 1..Len(literal) : text[i + k - 1] = literal[k]

\* desc.replace(U+2153, " 1/3")
RECURSIVE Replace(_)
Replace(text) ==
    IF text = <<>> THEN <<>>
    ELSE (IF Head(text) = OneThird THEN <<" ", "1", "/", "3">> ELSE <<Head(text)>>)
             \o Replace(Tail(text))

\* ", ".join(list), list not empty
RECURSIVE Join(_)
Join(list) ==
    IF Len(list) = 1 THEN list[1]
    ELSE list[1] \o <<",", " ">> \o Join(Tail(list))

\* the descriptions a release's formats are made of:
\*   7"   45 RPM   33 1/3 RPM   33 U+2153 RPM   LP   7" 45 RPM
Descriptions ==
    {<<"7", "\"">>,
     <<"4", "5", " ", "R", "P", "M">>,
     <<"3", "3", " ", "1", "/", "3", " ", "R", "P", "M">>,
     <<"3", "3", " ", OneThird, " ", "R", "P", "M">>,
     <<"L", "P">>,
     <<"7", "\"", " ", "4", "5", " ", "r", "p", "m">>}

DescLists == UNION {[1..n -> Descriptions] : n \in 0..MaxDescs}

\* the values of the argument: None, [], one format, two formats; a format
\* is the sequence of its descriptions (none: no "descriptions" key)
FormatsArgs ==
    {[present |-> FALSE, list |-> <<>>], [present |-> TRUE, list |-> <<>>]}
        \cup {[present |-> TRUE, list |-> <<d>>] : d \in DescLists}
        \cup UNION {{[present |-> TRUE,
                      list |-> <<SubSeq(d, 1, k), SubSeq(d, k + 1, Len(d))>>] :
                          k \in 0..Len(d)} : d \in DescLists}

\* the descriptions in the order the two loops visit them
RECURSIVE Visited(_)
Visited(list) == IF list = <<>> THEN <<>> ELSE Head(list) \o Visited(Tail(list))

\* `not x` of a text or None
Not(text) == text = <<None>> \/ text = <<>>

\* parse_formats(formats), up to the loops
PfCall ==
    /\ pf_pc = "idle"
    /\ \E f \in FormatsArgs : formats' = f
    /\ size' = <<None>>
    /\ speed' = <<None>>
    /\ details' = <<>>
    /\ IF ~formats'.present \/ formats'.list = <<>>
       THEN /\ details_text' = <<None>>
            /\ pf_todo' = <<>>
            /\ pf_pc' = "done"
       ELSE /\ details_text' = <<"unset">>
            /\ pf_todo' = Visited(formats'.list)
            /\ pf_pc' = "loop"
    /\ UNCHANGED <<rqVars, storeVars, mainVars, obsVars, vqVars, vsVars>>

\* the body of the inner loop: where one description goes
Takes(desc, sz, sp) ==
    IF Not(sz) /\ SIZE_PATTERN(desc) THEN "size"
    ELSE IF Not(sp) /\ RPM_PATTERN(Replace(desc)) THEN "speed"
    ELSE "details"

\* one iteration of the inner loop
PfStep ==
    /\ pf_pc = "loop"
    /\ pf_todo # <<>>
    /\ LET desc == Head(pf_todo)
           to == Takes(desc, size, speed)
       IN /\ size' = IF to = "size" THEN desc ELSE size
          /\ speed' = IF to = "speed" THEN desc ELSE speed
          /\ details' = IF to = "details" THEN Append(details, desc) ELSE details
    /\ pf_todo' = Tail(pf_todo)
    /\ UNCHANGED <<pf_pc, formats, details_text>>
    /\ UNCHANGED <<rqVars, storeVars, mainVars, obsVars, vqVars, vsVars>>

\* after the loops: details_text and the return
PfReturn ==
    /\ pf_pc = "loop"
    /\ pf_todo = <<>>
    /\ details_text' = IF details # <<>> THEN Join(details) ELSE <<None>>
    /\ pf_pc' = "done"
    /\ UNCHANGED <<formats, pf_todo, size, speed, details>>
    /\ UNCHANGED <<rqVars, storeVars, mainVars, obsVars, vqVars, vsVars>>

NextPf == PfCall \/ PfStep \/ PfReturn

\* one call of parse_formats, nothing else running
SpecPf == InitIdle /\ [][NextPf]_vars

(***************************************************************************)
(* REQUEST HELPERS of discogs_notion_value_sync.py: discogs_request and    *)
(* notion_request.                                                         *)
(***************************************************************************)
\* r.ok
Ok(status) == status < 400

\* a caller enters one of the two helpers
VqCall ==
    /\ vq_pc = "idle"
    /\ vq_helper' \in {"notion", "discogs"}
    /\ vq_pc' = "loop"
    /\ UNCHANGED <<vq_resps, vq_sleeps, vq_result>>
    /\ UNCHANGED <<rqVars, storeVars, mainVars, obsVars, pfVars, vsVars>>

\* discogs_request: one pass of `while True`
DiscogsPass(status) ==
    IF status = ConnError
    THEN /\ vq_result' = "raised"
         /\ vq_pc' = "done"
         /\ UNCHANGED vq_sleeps
    ELSE IF status = 429
    THEN /\ Cardinality({i \in 1..Len(vq_resps) : vq_resps[i] = 429}) < MaxThrottles
         /\ \E retry \in {RetryAfterDefault, 1} : vq_sleeps' = Append(vq_sleeps, retry)
         /\ UNCHANGED <<vq_pc, vq_result>>
    ELSE IF status >= 500
    THEN /\ vq_sleeps' = Append(vq_sleeps, ServerErrorWait)
         /\ vq_result' = "None"
         /\ vq_pc' = "done"
    ELSE /\ vq_result' = IF Ok(status) THEN "response" ELSE "None"
         /\ vq_pc' = "done"
         /\ UNCHANGED vq_sleeps

\* notion_request: the one request it issues
NotionPass(status) ==
    /\ vq_result' = IF status = ConnError THEN "raised"
                    ELSE IF Ok(status) THEN "response" ELSE "None"
    /\ vq_pc' = "done"
    /\ UNCHANGED vq_sleeps

\* the helper issues a request and acts on the answer
VqSend ==
    /\ vq_pc = "loop"
    /\ \E status \in ServerAnswers :
         /\ vq_resps' = Append(vq_resps, status)
         /\ IF vq_helper = "discogs" THEN DiscogsPass(status) ELSE NotionPass(status)
    /\ UNCHANGED vq_helper
    /\ UNCHANGED <<rqVars, storeVars, mainVars, obsVars, pfVars, vsVars>>

\* one call of a helper of each script, side by side
NextHelpers == RqCall \/ RqSend \/ RqBackoff \/ RqGiveUp \/ VqCall \/ VqSend

SpecHelpers == InitIdle /\ [][NextHelpers]_vars

(***************************************************************************)
(* discogs_notion_value_sync.py main(), against the marketplace and the    *)
(* database.  A number is the text of it; None is the JSON null.           *)
(***************************************************************************)
\* the marketplace, by release: GET /marketplace/stats/<id>
\* (release 2 has never been sold)
MarketStats ==
    (1 :> [lowest_price |-> "5"]) @@ (2 :> [lowest_price |-> None])

\* GET /marketplace/price_suggestions/<id>, the two conditions main() reads
\* (release 2 has no Mint suggestion)
PriceSuggestions ==
    (1 :> [vgplus |-> "10", mint |-> "20"]) @@ (2 :> [vgplus |-> "10", mint |-> None])

\* a page of the database as fetch_all_pages reads it (discogs_id 0: none)
\* never valued, or valued as release 1 stands on the marketplace
StoredPages ==
    {[discogs_id |-> d, low |-> v[1], med |-> v[2], high |-> v[3]] :
        d \in {0, 1, 2}, v \in {<<None, None, None>>, <<"5", "10", "20">>}}

\* the databases a run may find
Stores == UNION {[1..n -> StoredPages] : n \in 0..MaxPages}

VsOutcomes == {TRUE} \cup (IF vs_failures < MaxFailures THEN {FALSE} ELSE {})

VsReq(op, i, ok, values) ==
    [second |-> vs_second, op |-> op, page |-> i, ok |-> ok, values |-> values,
     stored |-> IF i = 0 THEN <<None, None, None>>
                ELSE <<vs_pages[i].low, vs_pages[i].med, vs_pages[i].high>>]

\* a run starts against some database
InitValueSync ==
    /\ InitRq
    /\ InitMain
    /\ srcCollection = <<>>
    /\ dbPages = <<>>
    /\ InitPf
    /\ InitVq
    /\ vs_store \in Stores
    /\ InitVsLocals
    /\ vs_pc = "fetch"
    /\ vs_second = FALSE
    /\ vs_log = <<>>
    /\ vs_failures = 0

\* fetch_all_pages: one iteration of `while has_more`
VsFetchPages ==
    /\ vs_pc = "fetch"
    /\ \E ok \in VsOutcomes :
         /\ vs_log' = Append(vs_log, VsReq("query", 0, ok, <<None, None, None>>))
         /\ vs_failures' = vs_failures + Failed(ok)
         /\ IF ~ok
            THEN /\ vs_pc' = "loop"
                 /\ UNCHANGED <<vs_pages, vs_cursor>>
            ELSE LET last == Min(vs_cursor + QueryPageCap, Len(vs_store))
                     has_more == last < Len(vs_store)
                 IN /\ vs_pages' = vs_pages \o
                          [k \in 1..(last - vs_cursor) |->
                              [page_id |-> vs_cursor + k,
                               discogs_id |-> vs_store[vs_cursor + k].discogs_id,
                               low |-> vs_store[vs_cursor + k].low,
                               med |-> vs_store[vs_cursor + k].med,
                               high |-> vs_store[vs_cursor + k].high]]
                    /\ vs_cursor' = IF has_more THEN last ELSE 0
                    /\ vs_pc' = IF has_more THEN "fetch" ELSE "loop"
    /\ UNCHANGED <<vs_store, vs_second, vs_i, vs_values, vs_updated, vs_skipped>>
    /\ UNCHANGED <<rqVars, storeVars, mainVars, obsVars, pfVars, vqVars>>

\* main: a page without a Discogs ID
VsSkipNoId ==
    /\ vs_pc = "loop"
    /\ vs_i <= Len(vs_pages)
    /\ vs_pages[vs_i].discogs_id = 0
    /\ vs_skipped' = vs_skipped + 1
    /\ vs_i' = vs_i + 1
    /\ UNCHANGED <<vs_store, vs_pc, vs_second, vs_cursor, vs_pages, vs_values,
                   vs_updated, vs_log, vs_failures>>
    /\ UNCHANGED <<rqVars, storeVars, mainVars, obsVars, pfVars, vqVars>>

\* get_market_values: the stats request
VsGetStats ==
    /\ vs_pc = "loop"
    /\ vs_i <= Len(vs_pages)
    /\ vs_pages[vs_i].discogs_id # 0
    /\ \E ok \in VsOutcomes :
         /\ vs_log' = Append(vs_log, VsReq("stats", vs_i, ok, <<None, None, None>>))
         /\ vs_failures' = vs_failures + Failed(ok)
         /\ vs_values' =
               <<IF ok THEN MarketStats[vs_pages[vs_i].discogs_id].lowest_price
                 ELSE None,
                 None, None>>
    /\ vs_pc' = "prices"
    /\ UNCHANGED <<vs_store, vs_second, vs_cursor, vs_pages, vs_i, vs_updated,
                   vs_skipped>>
    /\ UNCHANGED <<rqVars, storeVars, mainVars, obsVars, pfVars, vqVars>>

UnchangedLowOnly(p, values) == p.low = values[1]

\* main: the test under "Only update if changed"
Unchanged(p, values) ==
    p.low = values[1] /\ p.med = values[2] /\ p.high = values[3]

\* get_market_values: the price suggestions request and the return; main:
\* the comparison with the page
VsGetPrices ==
    /\ vs_pc = "prices"
    /\ \E ok \in VsOutcomes :
         LET data == PriceSuggestions[vs_pages[vs_i].discogs_id]
             values == <<vs_values[1],
                         IF ok THEN data.vgplus ELSE None,
                         IF ok THEN data.mint ELSE None>>
         IN /\ vs_log' = Append(vs_log, VsReq("prices", vs_i, ok, values))
            /\ vs_failures' = vs_failures + Failed(ok)
            /\ vs_values' = values
            /\ IF Unchanged(vs_pages[vs_i], values)
               THEN /\ vs_skipped' = vs_skipped + 1
                    /\ vs_i' = vs_i + 1
                    /\ vs_pc' = "loop"
               ELSE /\ vs_pc' = "patch"
                    /\ UNCHANGED <<vs_skipped, vs_i>>
    /\ UNCHANGED <<vs_store, vs_second, vs_cursor, vs_pages, vs_updated>>
    /\ UNCHANGED <<rqVars, storeVars, mainVars, obsVars, pfVars, vqVars>>

\* main: PATCH /pages/<page_id> with the three values
VsPatch ==
    /\ vs_pc = "patch"
    /\ \E ok \in VsOutcomes :
         /\ vs_log' = Append(vs_log, VsReq("patch", vs_i, ok, vs_values))
         /\ vs_failures' = vs_failures + Failed(ok)
         /\ vs_store' =
               IF ok
               THEN [vs_store EXCEPT ![vs_pages[vs_i].page_id] =
                        [discogs_id |-> @.discogs_id, low |-> vs_values[1],
                         med |-> vs_values[2], high |-> vs_values[3]]]
               ELSE vs_store
         /\ vs_updated' = vs_updated + (1 - Failed(ok))
    /\ vs_i' = vs_i + 1
    /\ vs_pc' = "loop"
    /\ UNCHANGED <<vs_second, vs_cursor, vs_pages, vs_values, vs_skipped>>
    /\ UNCHANGED <<rqVars, storeVars, mainVars, obsVars, pfVars, vqVars>>

\* main: the loop is over, the counters are printed
VsFinish ==
    /\ vs_pc = "loop"
    /\ vs_i > Len(vs_pages)
    /\ vs_pc' = "done"
    /\ UNCHANGED <<vs_store, vs_second, vs_cursor, vs_pages, vs_i, vs_values,
                   vs_updated, vs_skipped, vs_log, vs_failures>>
    /\ UNCHANGED <<rqVars, storeVars, mainVars, obsVars, pfVars, vqVars>>

\* the script is run a second time, the marketplace being as it was
VsRunAgain ==
    /\ vs_pc = "done"
    /\ ~vs_second
    /\ vs_second' = TRUE
    /\ vs_cursor' = 0
    /\ vs_pages' = <<>>
    /\ vs_i' = 1
    /\ vs_values' = <<None, None, None>>
    /\ vs_updated' = 0
    /\ vs_skipped' = 0
    /\ vs_pc' = "fetch"
    /\ UNCHANGED <<vs_store, vs_log, vs_failures>>
    /\ UNCHANGED <<rqVars, storeVars, mainVars, obsVars, pfVars, vqVars>>

NextValueSync ==
    \/ VsFetchPages \/ VsSkipNoId \/ VsGetStats \/ VsGetPrices \/ VsPatch
    \/ VsFinish \/ VsRunAgain

SpecValueSync == InitValueSync /\ [][NextValueSync]_vars

(***************************************************************************)
(* Properties.                                                             *)
(***************************************************************************)
WriteIdx == {j \in 1..Len(log) : IsWrite(log[j])}

SchemaIdx(f) == {j \in 1..Len(log) : log[j].op = "schema" /\ log[j].field = f}

IsSuccess(status) == status \in 200..299

IsClientError(status) == status \in 400..499 /\ status # 429

FailedAnswers == {i \in 1..Len(rq_resps) : ~IsSuccess(rq_resps[i])}

\* C1: when main() is run twice in succession with every request succeeding,
\* the second run issues no create and no update request, and its created and
\* updated counters are 0.
C1_SecondRunWritesNothing ==
    (run = 2 /\ failures = 0) => (WriteIdx = {} /\ created = 0 /\ updated = 0)

\* C2: every create or update request of an item comes after a registry
\* update, issued for that item, of each select field whose value was not in
\* the known option set when the item began; that update carries the value.
C2_SchemaSyncPrecedesWrite ==
    \A w \in WriteIdx :
        \A f \in FieldNames :
            LET v == log[w].props[f]
            IN (v # None /\ v \notin knownAt[log[w].item][f])
               => \E j \in 1..(w - 1) :
                     /\ log[j].op = "schema"
                     /\ log[j].field = f
                     /\ log[j].item = log[w].item
                     /\ v \in log[j].options

C2_Witness ==
    \E w \in WriteIdx :
        /\ log[w].props["Style"] # None
        /\ log[w].props["Style"] \notin knownAt[log[w].item]["Style"]
        /\ log[w].props["Folder"] # None
        /\ log[w].props["Folder"] \in knownAt[log[w].item]["Folder"]

\* C3: once a page request of get_full_collection has failed (here the only
\* request of the run that fails), the run issues no create and no update
\* request.
C3_FailedPageFetchAborts == (enumFailed /\ failures = 1) => WriteIdx = {}

\* C4: a call of notion_request or discogs_request issues at most max_retries
\* requests, sleeps 2^(k-1) seconds after its k-th failed attempt, returns
\* the first successful response and issues no request after it, returns None
\* after max_retries failed attempts, and always terminates.
C4_Safety ==
    /\ Len(rq_resps) <= max_retries
    /\ \A k \in 1..Len(rq_sleeps) :
           /\ rq_sleeps[k] = 2 ^ (k - 1)
           /\ k \in FailedAnswers
    /\ rq_pc \in {"loop", "done"} => Len(rq_sleeps) = Cardinality(FailedAnswers)
    /\ \A i \in 1..Len(rq_resps) :
           IsSuccess(rq_resps[i])
           => (i = Len(rq_resps) /\ rq_pc = "done" /\ rq_result = "response")
    /\ rq_result = "response" => IsSuccess(rq_resps[Len(rq_resps)])
    /\ (rq_pc = "done" /\ Cardinality(FailedAnswers) = max_retries)
           => rq_result = "None"
    /\ rq_result = "None" => Cardinality(FailedAnswers) = max_retries

C4_BoundedRetryWithBackoff == []C4_Safety /\ <>(rq_pc = "done")

C4_Witness ==
    /\ max_retries = DefaultMaxRetries
    /\ rq_pc = "done"
    /\ rq_result = "None"
    /\ rq_sleeps = <<1, 2, 4, 8, 16>>

\* C5: no number of consecutive 429 answers makes a call of notion_request
\* or discogs_request (max_retries at its default) return None.
C5_ThrottlingNeverFails ==
    (max_retries = DefaultMaxRetries /\ \A i \in 1..Len(rq_resps) : rq_resps[i] = 429)
        => rq_result # "None"

\* C6: after a 4xx answer other than 429 a call of notion_request or
\* discogs_request issues no further request and performs no sleep.
C6_ClientErrorFailsImmediately ==
    \A i \in 1..Len(rq_resps) :
        IsClientError(rq_resps[i]) => (i = Len(rq_resps) /\ Len(rq_sleeps) < i)

\* C7: a run (here one in which every request succeeds) issues at most one
\* registry update per select field, and its option list is the field's
\* existing options united with every new value of the run.
C7_OneRegistryUpdatePerField ==
    failures = 0 =>
        \A f \in FieldNames :
            /\ Cardinality(SchemaIdx(f)) <= 1
            /\ pc = "done" => \A j \in SchemaIdx(f) : log[j].options = options[f]

\* C8: the option set of every select field of the database is a superset of
\* what it was when the run began, also when a read of fetch_select_options
\* failed (here the only request of the run that fails).
C8_RegistryOnlyGrows ==
    failures <= 1 => \A f \in FieldNames : dbOptionsAtStart[f] \subseteq dbOptions[f]

\* C9: a run (here one in which every request succeeds) issues at most one
\* create or update request per Discogs ID.
C9_OneWritePerKey ==
    failures = 0 => \A j, k \in WriteIdx : log[j].key = log[k].key => j = k

\* C10: a create request is issued for a Discogs ID only while the database
\* holds no page with that ID, also in a run in which a query of
\* fetch_all_notion_pages failed (here the only request that fails) and the
\* source collection names no Discogs ID twice.
NoKeyTwice ==
    \A i, j \in 1..Len(srcCollection) :
        (srcCollection[i].has_basic /\ srcCollection[j].has_basic
         /\ srcCollection[i].rid = srcCollection[j].rid) => i = j

C10_CreateOnlyWhenAbsent ==
    [][ (/\ NoKeyTwice
         /\ failures' <= 1
         /\ Len(log') = Len(log) + 1
         /\ log'[Len(log')].op = "create")
        => \A i \in 1..Len(dbPages) : dbPages[i].discogs_id # log'[Len(log')].key ]_vars

\* C11: a run of main() is never left through an exception of one item: it
\* goes on with the next item and reaches the report of the counters.
C11_ItemFailureNeverAborts == pc # "crashed"

\* C12: an item whose get_release_details request found nothing (here the
\* only request of the run that fails) gets no create and no update request.
C12_NotFoundIsSkipped ==
    failures <= 1 => \A w \in WriteIdx : log[w].item \notin detailFailed

\* C13: at the end of a run created is the number of create requests that
\* succeeded and updated the number of update requests that succeeded.
C13_CountersReflectOutcomes ==
    pc = "done" =>
        /\ created = Cardinality({w \in writesOk : log[w].op = "create"})
        /\ updated = Cardinality({w \in writesOk : log[w].op = "update"})

\* C14: get_full_collection requests pages 1, 2, ... in that order, each
\* once, with per_page = 100, never more than the provider's page count;
\* when every page request succeeded it has requested exactly the pages
\* 1..N and returns the pages' items in page order.
IsPageRequest(e) == e.op = "collection_page"

PageRequests == SelectSeq(log, IsPageRequest)

C14_CompleteOrderedEnumeration ==
    /\ \A k \in 1..Len(PageRequests) :
           PageRequests[k].key = k /\ PageRequests[k].target = 100
    /\ Len(PageRequests) <= PageCount(srcCollection)
    /\ (pc # "collection" /\ ~enumFailed)
           => /\ Len(PageRequests) = PageCount(srcCollection)
              /\ collection = srcCollection

C14_Witness ==
    /\ pc = "folders"
    /\ ~enumFailed
    /\ Len(PageRequests) = 2
    /\ collection = srcCollection

\* C15: every item processed without an exception gets exactly one write
\* request, an update addressed to the indexed page id when its Discogs ID
\* is in the index and a create otherwise; an item that raised gets none;
\* the index does not change once fetch_all_notion_pages has returned.
WritesOf(i) == {w \in WriteIdx : log[w].item = i}

C15_Routing ==
    /\ \A w \in WriteIdx :
           IF log[w].key \in DOMAIN notion_pages
           THEN log[w].op = "update" /\ log[w].target = notion_pages[log[w].key]
           ELSE log[w].op = "create"
    /\ \A i \in 1..Len(collection) :
           /\ Cardinality(WritesOf(i)) <= 1
           /\ (i < idx /\ i \notin excepted) => Cardinality(WritesOf(i)) = 1
           /\ i \in excepted => WritesOf(i) = {}

C15_CreateUpdateRouting ==
    /\ []C15_Routing
    /\ [][pc # "index" => notion_pages' = notion_pages]_vars

C15_Witness ==
    /\ pc = "done"
    /\ \E w \in WriteIdx : log[w].op = "update"
    /\ \E w \in WriteIdx : log[w].op = "create"

\* C16: in a run (here one in which every request succeeds) no request that
\* modifies the target is issued before a get_release_details request.
C16_ScanBeforeTargetWrites ==
    failures = 0 =>
        \A j, k \in 1..Len(log) :
            (j < k /\ log[j].op \in {"schema", "create", "update"})
                => log[k].op # "release"

\* what parse_formats is to return of its argument, with `matches` telling
\* the descriptions of the speed pattern
PfTokens == IF formats.present THEN Visited(formats.list) ELSE <<>>

PfFirst(S) == IF S = {} THEN 0 ELSE CHOOSE i \in S : \A j \in S : i <= j

PfSizeAt == PfFirst({i \in 1..Len(PfTokens) : SIZE_PATTERN(PfTokens[i])})

PfRest(taken) ==
    LET keep == {i \in 1..Len(PfTokens) : i \notin taken}
        F[i \in 0..Len(PfTokens)] ==
            IF i = 0 THEN <<>>
            ELSE IF i \in keep THEN Append(F[i - 1], PfTokens[i]) ELSE F[i - 1]
    IN F[Len(PfTokens)]

PfSplit(speedAt) ==
    /\ size = IF PfSizeAt = 0 THEN <<None>> ELSE PfTokens[PfSizeAt]
    /\ speed = IF speedAt = 0 THEN <<None>> ELSE PfTokens[speedAt]
    /\ LET rest == PfRest({PfSizeAt, speedAt})
       IN details_text = IF rest = <<>> THEN <<None>> ELSE Join(rest)

\* C17: parse_formats returns as size the first description matching the
\* size pattern, as speed the first description matching the speed pattern
\* among those not taken as size, and as details all the others joined by
\* ", " in their order; an output nothing lands in is None.
C17_FirstMatchPartition ==
    pf_pc = "done" =>
        PfSplit(PfFirst({i \in 1..Len(PfTokens) :
                            i # PfSizeAt /\ RPM_PATTERN(PfTokens[i])}))

\* the same of the descriptions the call's own test (search after replace)
\* takes for speeds
PfSplitAsTested ==
    pf_pc = "done" =>
        PfSplit(PfFirst({i \in 1..Len(PfTokens) :
                            i # PfSizeAt /\ RPM_PATTERN(Replace(PfTokens[i]))}))

VsLogOf(second) == {j \in 1..Len(vs_log) : vs_log[j].second = second}

\* the requests of the run in progress
VsNow == VsLogOf(vs_second)

VsPatchesOf(i) == {j \in VsNow : vs_log[j].op = "patch" /\ vs_log[j].page = i}

\* what get_market_values returned for page i in this run
VsFetchedFor(i) == {vs_log[j].values : j \in {k \in VsNow : vs_log[k].op = "prices" /\ vs_log[k].page = i}}

\* the pages the loop of main() is through with
VsHandled == {i \in 1..Len(vs_pages) : i < vs_i}

\* C18: a page is PATCHed if and only if it has a Discogs ID and the fetched
\* triple differs from the stored one; a page without a Discogs ID causes no
\* request; a second run, every request of both runs succeeding, issues no
\* PATCH.
C18_WritesOnlyOnChange ==
    /\ \A i \in VsHandled :
          LET p == vs_pages[i]
              stored == <<p.low, p.med, p.high>>
          IN /\ Cardinality(VsPatchesOf(i)) <= 1
             /\ VsPatchesOf(i) # {} <=>
                    (p.discogs_id # 0 /\ \E v \in VsFetchedFor(i) : v # stored)
             /\ p.discogs_id = 0 => \A j \in VsNow : vs_log[j].page # i
    /\ (vs_second /\ vs_failures = 0) =>
          \A j \in VsNow : vs_log[j].op # "patch"

\* two runs are over with every request answered; the first PATCHed a page
\* and left another, which has a Discogs ID, alone
C18_Witness ==
    /\ vs_pc = "done"
    /\ vs_second
    /\ vs_failures = 0
    /\ \E j \in VsLogOf(FALSE) : vs_log[j].op = "patch"
    /\ \E i \in 1..Len(vs_pages) :
          /\ vs_pages[i].discogs_id # 0
          /\ \A j \in VsLogOf(FALSE) : ~(vs_log[j].op = "patch" /\ vs_log[j].page = i)

\* the two helpers were answered by the same server: of the answers they
\* got, one sequence begins with the other, and each answer is a response
SameAnswers ==
    /\ \A k \in 1..Min(Len(rq_resps), Len(vq_resps)) : rq_resps[k] = vq_resps[k]
    /\ \A k \in 1..Len(rq_resps) : rq_resps[k] # ConnError
    /\ \A k \in 1..Len(vq_resps) : vq_resps[k] # ConnError

\* C19: given the same answers, a helper of the value sync and its namesake
\* of sync.py (called with the default max_retries) issue the same number of
\* requests and return the same outcome.
C19_HelpersBehaveAlike ==
    (/\ rq_pc = "done" /\ vq_pc = "done"
     /\ rq_helper = vq_helper
     /\ max_retries = DefaultMaxRetries
     /\ SameAnswers)
        => (Len(rq_resps) = Len(vq_resps) /\ rq_result = vq_result)

\* a market request for the page of PATCH j failed in the run of j
VsMarketFailed(j) ==
    \E k \in VsLogOf(vs_log[j].second) :
        /\ vs_log[k].page = vs_log[j].page
        /\ vs_log[k].op \in {"stats", "prices"}
        /\ ~vs_log[k].ok

\* C20: when a market request for a page's release fails, no PATCH of that
\* run replaces a stored non-null ValueLow, ValueMed or ValueHigh of the page
\* with null.
C20_FailedFetchKeepsStoredValue ==
    \A j \in 1..Len(vs_log) :
        (vs_log[j].op = "patch" /\ VsMarketFailed(j)) =>
            \A f \in 1..3 :
                vs_log[j].stored[f] # None => vs_log[j].values[f] # None

====
